---- MODULE Spec2Model ----
(***************************************************************************)
(* Model of the rekonise link resolver (src/rekonise.py, src/main.py).     *)
(*                                                                         *)
(* Strings are sequences of one-character strings, so that split, strip,   *)
(* replace and formatting are computed character by character.             *)
(*                                                                         *)
(* Spec       : one run of the command line tool (dispatch, single link    *)
(*              mode, batch mode with the thread pool and progress bar).   *)
(* SpecParse  : read_links_from_file applied to every bounded file text.   *)
(* SpecDomain : remove_domain applied to every bounded URL.                *)
(***************************************************************************)
EXTENDS Integers, Sequences, FiniteSets, TLC

VARIABLES
    cpu_count,  \* os.cpu_count() of the machine
    argv,       \* the accepted command line: [flag, value]
    fs,         \* text of the file the -f path names
    call,       \* arguments main() was called with: [file, link]
    pc,         \* position of the main thread
    mode,       \* pipeline main() entered: "unset", "single", "batch", "none"
    links,      \* the list of link dicts
    status,     \* per link: state of its process_link call / future
    expanded,   \* per link: local expanded_url of process_link
    plug,       \* per link: local plug of process_link
    resp,       \* per link: local download_url of process_link
    submitted,  \* number of futures submitted so far
    yielded,    \* futures as_completed has yielded, in order
    progress,   \* tqdm's counter n
    exc,        \* an exception is propagating out of the with block
    processed,  \* processed_links, as references (indices) into links
    output,     \* lines printed to standard output
    err,        \* exception that ended the run, "" if none
    pin,        \* input of the pure function under check
    pout,       \* its result
    pphase      \* "idle", "input" or "output"

runVars == <<cpu_count, argv, fs, call, pc, mode, links, status, expanded,
             plug, resp, submitted, yielded, progress, exc, processed,
             output, err>>
pureVars == <<pin, pout, pphase>>
vars == <<cpu_count, argv, fs, call, pc, mode, links, status, expanded,
          plug, resp, submitted, yielded, progress, exc, processed,
          output, err, pin, pout, pphase>>

----------------------------------------------------------------------------
(* Bounds *)

MaxCpu == 3        \* cpu_count ranges over 1..MaxCpu
MaxLines == 2      \* lines of the input file of a run
MaxFileLen == 6    \* characters of a file text given to the parser
MaxPieces == 3     \* pieces a URL given to remove_domain is built from

----------------------------------------------------------------------------
(* Strings *)

REKONISE_DOMAIN ==
    <<"h","t","t","p","s",":","/","/","r","e","k","o","n","i","s","e",
      ".","c","o","m","/">>

SEPARATOR == <<":", " ">>

Whitespace == {" ", "\n", "\t"}

Min(S) == CHOOSE x \in S : \A y \in S : x <= y
Max(S) == CHOOSE x \in S : \A y \in S : x >= y

\* s.find(sep) + 1: position of the first occurrence of sep in s, 0 if none
IndexOf(s, sep) ==
    LET occ == {i \in 1..(Len(s) - Len(sep) + 1) :
                    SubSeq(s, i, i + Len(sep) - 1) = sep}
    IN  IF occ = {} THEN 0 ELSE Min(occ)

\* sep in s
Contains(s, sep) == IndexOf(s, sep) # 0

\* s.startswith(p)
StartsWith(s, p) == Len(s) >= Len(p) /\ SubSeq(s, 1, Len(p)) = p

\* s.strip()
Strip(s) ==
    LET keep == {i \in 1..Len(s) : s[i] \notin Whitespace}
    IN  IF keep = {} THEN <<>> ELSE SubSeq(s, Min(keep), Max(keep))

\* s.split(sep): cut at every occurrence of sep, scanning left to right
RECURSIVE Split(_, _)
Split(s, sep) ==
    LET i == IndexOf(s, sep)
    IN  IF i = 0 THEN <<s>>
        ELSE <<SubSeq(s, 1, i - 1)>> \o Split(SubSeq(s, i + Len(sep), Len(s)), sep)

\* str.replace(s, old, new): every occurrence of old, scanning left to right
RECURSIVE Replace(_, _, _)
Replace(s, old, new) ==
    LET i == IndexOf(s, old)
    IN  IF i = 0 THEN s
        ELSE SubSeq(s, 1, i - 1) \o new
             \o Replace(SubSeq(s, i + Len(old), Len(s)), old, new)

\* the lines a text file yields when iterated
FileLines(text) == Split(text, <<"\n">>)

----------------------------------------------------------------------------
(* remove_domain *)

RemovePrefixOnly(url) ==
    IF StartsWith(url, REKONISE_DOMAIN)
    THEN SubSeq(url, Len(REKONISE_DOMAIN) + 1, Len(url))
    ELSE url

remove_domain(url) == Replace(url, REKONISE_DOMAIN, <<>>)

----------------------------------------------------------------------------
(* read_links_from_file *)

LinkDict(name, url) == [name |-> name, url |-> url, download_url |-> <<>>]

\* the loop body for one line: "skip", "append" with the dict, or "raise"
ParseLine(rawline) ==
    LET line == Strip(rawline)
        parts == Split(line, SEPARATOR)
    IN  IF line = <<>> \/ ~Contains(line, SEPARATOR)
        THEN [kind |-> "skip", link |-> LinkDict(<<>>, <<>>)]
        ELSE IF Len(parts) # 2
        THEN [kind |-> "raise", link |-> LinkDict(<<>>, <<>>)]
        ELSE [kind |-> "append", link |-> LinkDict(Strip(parts[1]), Strip(parts[2]))]

RECURSIVE ParseLines(_, _)
ParseLines(lines, acc) ==
    IF lines = <<>> THEN [raised |-> FALSE, links |-> acc]
    ELSE LET r == ParseLine(Head(lines))
         IN  IF r.kind = "raise" THEN [raised |-> TRUE, links |-> <<>>]
             ELSE IF r.kind = "skip" THEN ParseLines(Tail(lines), acc)
             ELSE ParseLines(Tail(lines), Append(acc, r.link))

read_links_from_file(text) == ParseLines(FileLines(text), <<>>)

----------------------------------------------------------------------------
(* Values of a run *)

None == [isNone |-> TRUE, s |-> <<>>]
Str(s) == [isNone |-> FALSE, s |-> s]

\* truth value of an optional string: None and "" are both false
Truthy(v) == ~v.isNone /\ v.s # <<>>

IndividualLink ==
    <<"I","n","d","i","v","i","d","u","a","l"," ","L","i","n","k">>

\* int(0.8 * os.cpu_count())
MAX_WORKERS == (8 * cpu_count) \div 10

\* f"{link['name']}: {link['download_url']}"
FormatLine(link) == link.name \o <<":", " ">> \o link.download_url

RECURSIVE Concat(_)
Concat(ss) == IF ss = <<>> THEN <<>> ELSE Head(ss) \o Concat(Tail(ss))

SeqsUpTo(S, n) == UNION {[1..k -> S] : k \in 0..n}

\* lines the input file of a run is made of
SampleLines ==
    { <<"A", ":", " ", "u", "\n">>,
      <<"B", ":", " ", "v", "\n">>,
      <<"\n">> }

Files == {Concat(ls) : ls \in SeqsUpTo(SampleLines, MaxLines)}

\* values of the -f / -l argument
ArgValues == {<<>>, <<"a">>}

\* final URLs the short link service may redirect to
ExpandedUrls == {REKONISE_DOMAIN \o <<"p">>, <<"o">>}

\* values of the "url" field the unlock endpoint may answer
DownloadUrls == {<<"d">>, <<"e">>}

Idx == 1..Len(links)
Finished == {i \in Idx : status[i] \in {"ok", "failed"}}
Queued == {i \in Idx : status[i] = "queued"}
Running == {i \in Idx : status[i] \in {"expand", "unlock", "write"}}

----------------------------------------------------------------------------
(* Initial state: an accepted command line, a machine, a file *)

InitPureIdle == pin = <<>> /\ pout = <<>> /\ pphase = "idle"

InitRun ==
    /\ cpu_count \in 1..MaxCpu
    /\ argv \in [flag : {"-f", "-l"}, value : ArgValues]
    /\ fs \in Files
    /\ (argv.flag = "-l" \/ argv.value = <<>>) => fs = <<>>
    /\ call = [file |-> None, link |-> None]
    /\ pc = "start"
    /\ mode = "unset"
    /\ links = <<>>
    /\ status = <<>>
    /\ expanded = <<>>
    /\ plug = <<>>
    /\ resp = <<>>
    /\ submitted = 0
    /\ yielded = <<>>
    /\ progress = 0
    /\ exc = FALSE
    /\ processed = <<>>
    /\ output = <<>>
    /\ err = ""

Init == InitRun /\ InitPureIdle

----------------------------------------------------------------------------
(* main.py: the dispatch on the parsed arguments *)

\* args of parse_arguments(): the flag not given is None
ArgsFile == IF argv.flag = "-f" THEN Str(argv.value) ELSE None
ArgsLink == IF argv.flag = "-l" THEN Str(argv.value) ELSE None

Dispatch ==
    /\ pc = "start"
    /\ call' = IF Truthy(ArgsFile)
               THEN [file |-> ArgsFile, link |-> None]
               ELSE [file |-> None, link |-> ArgsLink]
    /\ pc' = "main"
    /\ UNCHANGED <<cpu_count, argv, fs, mode, links, status, expanded, plug,
                   resp, submitted, yielded, progress, exc, processed,
                   output, err, pureVars>>

(* rekonise.main: if link / elif file / fall through *)

MainLink ==
    /\ pc = "main"
    /\ Truthy(call.link)
    /\ mode' = "single"
    /\ links' = <<[name |-> IndividualLink, url |-> call.link.s,
                   download_url |-> <<>>]>>
    /\ status' = <<"expand">>
    /\ expanded' = <<<<>>>>
    /\ plug' = <<<<>>>>
    /\ resp' = <<<<>>>>
    /\ pc' = "process"
    /\ UNCHANGED <<cpu_count, argv, fs, call, submitted, yielded, progress,
                   exc, processed, output, err, pureVars>>

MainFile ==
    /\ pc = "main"
    /\ ~Truthy(call.link)
    /\ Truthy(call.file)
    /\ mode' = "batch"
    /\ LET r == read_links_from_file(fs)
       IN  IF r.raised
           THEN /\ pc' = "error"
                /\ err' = "ValueError: too many values to unpack"
                /\ UNCHANGED <<links, status, expanded, plug, resp>>
           ELSE /\ pc' = "pool"
                /\ links' = r.links
                /\ status' = [i \in 1..Len(r.links) |-> "new"]
                /\ expanded' = [i \in 1..Len(r.links) |-> <<>>]
                /\ plug' = [i \in 1..Len(r.links) |-> <<>>]
                /\ resp' = [i \in 1..Len(r.links) |-> <<>>]
                /\ err' = err
    /\ UNCHANGED <<cpu_count, argv, fs, call, submitted, yielded, progress,
                   exc, processed, output, pureVars>>

MainNeither ==
    /\ pc = "main"
    /\ ~Truthy(call.link)
    /\ ~Truthy(call.file)
    /\ mode' = "none"
    /\ pc' = "done"
    /\ UNCHANGED <<cpu_count, argv, fs, call, links, status, expanded, plug,
                   resp, submitted, yielded, progress, exc, processed,
                   output, err, pureVars>>

----------------------------------------------------------------------------
(* process_link: expand_short_url, remove_domain, get_download_url, write *)

\* variant: every call assigns to the first dict of the list
WriteTargetFirst(i) == 1

\* the dict a process_link call for link i assigns to: its own argument
WriteTarget(i) == i

\* expand_short_url returns the final URL; remove_domain gives the plug
ExpandOk(i, u) ==
    /\ i \in Idx
    /\ status[i] = "expand"
    /\ expanded' = [expanded EXCEPT ![i] = u]
    /\ plug' = [plug EXCEPT ![i] = remove_domain(u)]
    /\ status' = [status EXCEPT ![i] = "unlock"]
    /\ UNCHANGED <<cpu_count, argv, fs, call, pc, mode, links, resp,
                   submitted, yielded, progress, exc, processed, output, err,
                   pureVars>>

\* requests.head raises (timeout, connection or redirect failure)
ExpandFail(i) ==
    /\ i \in Idx
    /\ status[i] = "expand"
    /\ status' = [status EXCEPT ![i] = "failed"]
    /\ UNCHANGED <<cpu_count, argv, fs, call, pc, mode, links, expanded, plug,
                   resp, submitted, yielded, progress, exc, processed, output,
                   err, pureVars>>

\* get_download_url returns the "url" field of the answer
UnlockOk(i, d) ==
    /\ i \in Idx
    /\ status[i] = "unlock"
    /\ resp' = [resp EXCEPT ![i] = d]
    /\ status' = [status EXCEPT ![i] = "write"]
    /\ UNCHANGED <<cpu_count, argv, fs, call, pc, mode, links, expanded, plug,
                   submitted, yielded, progress, exc, processed, output, err,
                   pureVars>>

\* requests.get raises, or the answer has no "url" field
UnlockFail(i) ==
    /\ i \in Idx
    /\ status[i] = "unlock"
    /\ status' = [status EXCEPT ![i] = "failed"]
    /\ expanded' = [expanded EXCEPT ![i] = <<>>]
    /\ plug' = [plug EXCEPT ![i] = <<>>]
    /\ UNCHANGED <<cpu_count, argv, fs, call, pc, mode, links, resp,
                   submitted, yielded, progress, exc, processed, output, err,
                   pureVars>>

\* link["download_url"] = download_url; return link
Write(i) ==
    /\ i \in Idx
    /\ status[i] = "write"
    /\ links' = [links EXCEPT ![WriteTarget(i)].download_url = resp[i]]
    /\ status' = [status EXCEPT ![i] = "ok"]
    /\ UNCHANGED <<cpu_count, argv, fs, call, pc, mode, expanded, plug, resp,
                   submitted, yielded, progress, exc, processed, output, err,
                   pureVars>>

----------------------------------------------------------------------------
(* Single link mode: link_dict = process_link(link_dict); print_links *)

SingleReturn ==
    /\ pc = "process"
    /\ status[1] \in {"ok", "failed"}
    /\ IF status[1] = "failed"
       THEN pc' = "error" /\ err' = "process_link raised" /\ processed' = processed
       ELSE pc' = "print" /\ err' = err /\ processed' = <<1>>
    /\ UNCHANGED <<cpu_count, argv, fs, call, mode, links, status, expanded,
                   plug, resp, submitted, yielded, progress, exc, output,
                   pureVars>>

----------------------------------------------------------------------------
(* Batch mode: the thread pool, the progress loop, the collection *)

\* variant: result() swallows the exception of a failed call
FutureNeverRaises(i) == FALSE

\* future.result() re-raises the exception of a failed call
FutureRaises(i) == status[i] = "failed"

\* variant: shutdown(wait=False), the block is left at once
ShutdownNoWait == TRUE

\* leaving the with block calls shutdown(wait=True): every submitted call,
\* queued ones included, has run to its end before the block is left
ShutdownWaitDone == Finished = Idx

\* variant: the results are collected in the order as_completed yielded them
ProcessedInCompletionOrder == [k \in 1..Len(links) |-> yielded[k]]

\* [future.result() for future in futures]: the dicts in submission order
ProcessedLinks == [k \in 1..Len(links) |-> k]

\* variant: the counter is advanced before the body runs
ProgressAlways(n, raised) == n + 1

\* tqdm adds one to n when the loop body comes back for the next item;
\* a body that raises never comes back
ProgressAfter(n, raised) == IF raised THEN n ELSE n + 1

\* ThreadPoolExecutor(max_workers=MAX_WORKERS)
CreatePool ==
    /\ pc = "pool"
    /\ IF MAX_WORKERS <= 0
       THEN pc' = "error" /\ err' = "ValueError: max_workers must be greater than 0"
       ELSE pc' = "submit" /\ err' = err
    /\ UNCHANGED <<cpu_count, argv, fs, call, mode, links, status, expanded,
                   plug, resp, submitted, yielded, progress, exc, processed,
                   output, pureVars>>

\* executor.submit(process_link, link) for the next link
Submit ==
    /\ pc = "submit"
    /\ submitted < Len(links)
    /\ submitted' = submitted + 1
    /\ status' = [status EXCEPT ![submitted + 1] = "queued"]
    /\ UNCHANGED <<cpu_count, argv, fs, call, pc, mode, links, expanded, plug,
                   resp, yielded, progress, exc, processed, output, err,
                   pureVars>>

\* tqdm(as_completed(futures), total=len(links))
StartLoop ==
    /\ pc = "submit"
    /\ submitted = Len(links)
    /\ pc' = "loop"
    /\ UNCHANGED <<cpu_count, argv, fs, call, mode, links, status, expanded,
                   plug, resp, submitted, yielded, progress, exc, processed,
                   output, err, pureVars>>

\* a worker thread takes the oldest queued call; at most MAX_WORKERS threads
StartTask(i) ==
    /\ mode = "batch"
    /\ Queued # {}
    /\ i = Min(Queued)
    /\ Cardinality(Running) < MAX_WORKERS
    /\ status' = [status EXCEPT ![i] = "expand"]
    /\ UNCHANGED <<cpu_count, argv, fs, call, pc, mode, links, expanded, plug,
                   resp, submitted, yielded, progress, exc, processed, output,
                   err, pureVars>>

\* as_completed yields a finished future; the loop body calls future.result()
LoopNext(i) ==
    /\ pc = "loop"
    /\ i \in Finished
    /\ \A k \in 1..Len(yielded) : yielded[k] # i
    /\ yielded' = Append(yielded, i)
    /\ progress' = ProgressAfter(progress, FutureRaises(i))
    /\ IF FutureRaises(i)
       THEN exc' = TRUE /\ pc' = "exit"
       ELSE exc' = exc /\ pc' = pc
    /\ UNCHANGED <<cpu_count, argv, fs, call, mode, links, status, expanded,
                   plug, resp, submitted, processed, output, err, pureVars>>

\* as_completed is exhausted
LoopEnd ==
    /\ pc = "loop"
    /\ Len(yielded) = Len(links)
    /\ pc' = "exit"
    /\ UNCHANGED <<cpu_count, argv, fs, call, mode, links, status, expanded,
                   plug, resp, submitted, yielded, progress, exc, processed,
                   output, err, pureVars>>

\* ThreadPoolExecutor.__exit__
ExitWith ==
    /\ pc = "exit"
    /\ ShutdownWaitDone
    /\ IF exc
       THEN pc' = "error" /\ err' = "process_link raised"
       ELSE pc' = "collect" /\ err' = err
    /\ UNCHANGED <<cpu_count, argv, fs, call, mode, links, status, expanded,
                   plug, resp, submitted, yielded, progress, exc, processed,
                   output, pureVars>>

\* processed_links = [future.result() for future in futures]
Collect ==
    /\ pc = "collect"
    /\ IF \E i \in Finished : FutureRaises(i)
       THEN pc' = "error" /\ err' = "process_link raised" /\ processed' = processed
       ELSE pc' = "print" /\ err' = err /\ processed' = ProcessedLinks
    /\ UNCHANGED <<cpu_count, argv, fs, call, mode, links, status, expanded,
                   plug, resp, submitted, yielded, progress, exc, output,
                   pureVars>>

----------------------------------------------------------------------------
(* print_links *)

PrintLine ==
    /\ pc = "print"
    /\ Len(output) < Len(processed)
    /\ output' = Append(output, FormatLine(links[processed[Len(output) + 1]]))
    /\ UNCHANGED <<cpu_count, argv, fs, call, pc, mode, links, status,
                   expanded, plug, resp, submitted, yielded, progress, exc,
                   processed, err, pureVars>>

PrintReturn ==
    /\ pc = "print"
    /\ Len(output) = Len(processed)
    /\ pc' = "done"
    /\ UNCHANGED <<cpu_count, argv, fs, call, mode, links, status, expanded,
                   plug, resp, submitted, yielded, progress, exc, processed,
                   output, err, pureVars>>

----------------------------------------------------------------------------

Next ==
    \/ Dispatch
    \/ MainLink
    \/ MainFile
    \/ MainNeither
    \/ \E i \in Idx : \E u \in ExpandedUrls : ExpandOk(i, u)
    \/ \E i \in Idx : ExpandFail(i)
    \/ \E i \in Idx : \E d \in DownloadUrls : UnlockOk(i, d)
    \/ \E i \in Idx : UnlockFail(i)
    \/ \E i \in Idx : Write(i)
    \/ SingleReturn
    \/ CreatePool
    \/ Submit
    \/ StartLoop
    \/ \E i \in Idx : StartTask(i)
    \/ \E i \in Idx : LoopNext(i)
    \/ LoopEnd
    \/ ExitWith
    \/ Collect
    \/ PrintLine
    \/ PrintReturn

Spec == Init /\ [][Next]_vars

----------------------------------------------------------------------------
(* The pure functions, applied to every bounded input *)

ParseAlphabet == {"a", ":", " ", "\n"}

Texts == SeqsUpTo(ParseAlphabet, MaxFileLen)

UrlPieces == {REKONISE_DOMAIN, <<"a">>, <<"h">>, <<"/">>}

Urls == {Concat(ps) : ps \in SeqsUpTo(UrlPieces, MaxPieces)}

\* no run is in progress
InitRunIdle ==
    /\ cpu_count = 1
    /\ argv = [flag |-> "-f", value |-> <<>>]
    /\ fs = <<>>
    /\ call = [file |-> None, link |-> None]
    /\ pc = "idle"
    /\ mode = "unset"
    /\ links = <<>>
    /\ status = <<>>
    /\ expanded = <<>>
    /\ plug = <<>>
    /\ resp = <<>>
    /\ submitted = 0
    /\ yielded = <<>>
    /\ progress = 0
    /\ exc = FALSE
    /\ processed = <<>>
    /\ output = <<>>
    /\ err = ""

InitParse ==
    /\ InitRunIdle
    /\ pin \in Texts
    /\ pout = [raised |-> FALSE, links |-> <<>>]
    /\ pphase = "input"

ApplyParse ==
    /\ pphase = "input"
    /\ pout' = read_links_from_file(pin)
    /\ pphase' = "output"
    /\ UNCHANGED <<pin, runVars>>

SpecParse == InitParse /\ [][ApplyParse]_vars

InitDomain ==
    /\ InitRunIdle
    /\ pin \in Urls
    /\ pout = <<>>
    /\ pphase = "input"

ApplyRemoveDomain ==
    /\ pphase = "input"
    /\ pout' = remove_domain(pin)
    /\ pphase' = "output"
    /\ UNCHANGED <<pin, runVars>>

SpecDomain == InitDomain /\ [][ApplyRemoveDomain]_vars

----------------------------------------------------------------------------
(* Properties *)

\* the records the parser produced for the file of the run
Parsed == read_links_from_file(fs).links

RunEnded == pc \in {"done", "error"}

\* C1: in batch mode, when all tasks succeeded, the lines printed are one
\* per record and the k-th line is "name: download_url" of the k-th record
\* of the file, whatever the order the tasks completed in.
C1_OutputInSubmissionOrder ==
    (mode = "batch" /\ pc \in {"print", "done"}) =>
        /\ Len(output) <= Len(Parsed)
        /\ pc = "done" => Len(output) = Len(Parsed)
        /\ \A k \in 1..Len(output) :
              /\ links[k].download_url = resp[k]
              /\ output[k] = Parsed[k].name \o <<":", " ">> \o resp[k]

\* two different records, the second completed and retrieved first
C1_Witness ==
    /\ mode = "batch"
    /\ pc = "done"
    /\ Len(links) = 2
    /\ links[1].name # links[2].name
    /\ yielded = <<2, 1>>
    /\ Len(output) = 2

\* C2: in batch mode, once the resolution of any record has failed, no
\* result line is printed for any record and the run can only end in error.
C2_FailFastNoOutput ==
    (mode = "batch" /\ \E i \in Idx : status[i] = "failed") =>
        /\ output = <<>>
        /\ processed = <<>>
        /\ pc \notin {"collect", "print", "done"}
        /\ RunEnded => pc = "error"

\* one record failed, another one succeeded, the run is over
C2_Witness ==
    /\ mode = "batch"
    /\ pc = "error"
    /\ \E i \in Idx : status[i] = "failed"
    /\ \E j \in Idx : status[j] = "ok" /\ links[j].download_url # <<>>
    /\ output = <<>>

\* C3: in batch mode every record is submitted before the first result is
\* looked at, and when the run has ended after the pool was used, every
\* submitted task has run to its own end: none is left unstarted or
\* unfinished because another failed, and a task whose calls succeeded
\* has set its download_url.
C3_SiblingsRunToCompletion ==
    /\ (mode = "batch" /\ pc \in {"loop", "exit", "collect", "print", "done"})
          => submitted = Len(links)
    /\ (mode = "batch" /\ RunEnded) =>
          \A i \in Idx :
              /\ status[i] # "new" => status[i] \in {"ok", "failed"}
              /\ status[i] = "ok" => links[i].download_url = resp[i]

\* the first task failed and was retrieved first; the second still succeeded
C3_Witness ==
    /\ mode = "batch"
    /\ pc = "error"
    /\ Len(links) = 2
    /\ yielded = <<1>>
    /\ status = <<"failed", "ok">>
    /\ links[2].download_url # <<>>

\* C4: the pool size is at least 1, so creating the pool never fails.
C4_PoolSizeAtLeastOne ==
    /\ pc = "pool" => MAX_WORKERS >= 1
    /\ err # "ValueError: max_workers must be greater than 0"

\* the record the claim expects for a line, by the first separator
ExpectedLine(rawline) ==
    LET line == Strip(rawline)
        i == IndexOf(line, SEPARATOR)
    IN  IF line = <<>> \/ i = 0 THEN <<>>
        ELSE <<LinkDict(Strip(SubSeq(line, 1, i - 1)),
                        Strip(SubSeq(line, i + Len(SEPARATOR), Len(line))))>>

RECURSIVE ExpectedLinks(_)
ExpectedLinks(lines) ==
    IF lines = <<>> THEN <<>>
    ELSE ExpectedLine(Head(lines)) \o ExpectedLinks(Tail(lines))

\* C5: the parser never fails, and returns in file order one record per
\* non-blank line with the separator, split at its first occurrence.
C5_ParserTotalFirstOccurrence ==
    pphase = "output" =>
        /\ ~pout.raised
        /\ pout.links = ExpectedLinks(FileLines(pin))

\* C6: remove_domain removes the domain only as a leading prefix.
C6_PrefixOnly ==
    pphase = "output" => pout = RemovePrefixOnly(pin)

\* C7: an accepted command line runs the pipeline of its flag: -l the
\* single link pipeline, -f the batch pipeline, never neither.
C7_FlagSelectsPipeline ==
    pc \notin {"start", "main"} =>
        /\ argv.flag = "-l" => mode = "single"
        /\ argv.flag = "-f" => mode = "batch"

\* C8: in batch mode a file that yields zero records ends without error,
\* with no resolver call and no line printed.
C8_EmptyFileNoError ==
    (mode = "batch" /\ ~read_links_from_file(fs).raised /\ Parsed = <<>>) =>
        /\ pc # "error"
        /\ err = ""
        /\ status = <<>>
        /\ output = <<>>

\* the progress loop has been left
LoopOver ==
    \/ pc \in {"exit", "collect", "print", "done"}
    \/ pc = "error" /\ err = "process_link raised"

RecordOwnedByItsTask(i) ==
    /\ links[i].name = Parsed[i].name
    /\ links[i].url = Parsed[i].url
    /\ \/ status[i] # "ok" /\ links[i].download_url = <<>>
       \/ /\ status[i] = "ok"
          /\ links[i].download_url = resp[i]
          /\ expanded[i] \in ExpandedUrls
          /\ plug[i] = remove_domain(expanded[i])

\* a step changes a record only as the write of that record's own task
OnlyOwnWrite ==
    (mode = "batch" /\ Len(links') = Len(links)) =>
        \A i \in Idx :
            links'[i] # links[i] =>
                /\ status[i] = "write"
                /\ status'[i] = "ok"
                /\ links'[i] = [links[i] EXCEPT !.download_url = resp[i]]

\* C10: in every state of a batch run each record has the parser's name and
\* url and a download_url that is empty or the value its own unlock call
\* returned, and every change of a record is the single write of its own task.
C10_RecordsMutatedOnlyByOwnTask ==
    /\ [](mode = "batch" => \A i \in Idx : RecordOwnedByItsTask(i))
    /\ [][OnlyOwnWrite]_vars

\* two records equal in name and url end with different download urls
C10_Witness ==
    /\ mode = "batch"
    /\ Len(links) = 2
    /\ links[1].name = links[2].name
    /\ links[1].url = links[2].url
    /\ status = <<"ok", "ok">>
    /\ links[1].download_url # links[2].download_url

====
